---- MODULE Spec2Model ----
(***************************************************************************)
(* A model of plumbum/machines/parallel.py: commands combined with '&'     *)
(* into a ConcurrentCommand, the ConcurrentPopen handle over the spawned   *)
(* children, and the Cluster of machines.                                  *)
(*                                                                         *)
(* Each component has its own specification over the shared variables:     *)
(*   PopenSpec      ConcurrentPopen.poll / wait / communicate, interleaved *)
(*                  with the children finishing                            *)
(*   PopenFairSpec  the same, the calling thread being scheduled           *)
(*   CommandSpec    commands combined with '&' (make_concurrent)           *)
(*   ClusterSpec    the queries and the indexing of a Cluster              *)
(*   AsUserSpec     Cluster.as_user: nested() over the machines' contexts  *)
(* A specification holds the variables of the other components at their    *)
(* initial values.                                                         *)
(***************************************************************************)
EXTENDS Integers, Sequences, FiniteSets, TLC

(* ------------------------------ bounds -------------------------------- *)
\* the most children of one ConcurrentPopen
MaxProcs == 3
\* child exit statuses range over 0..MaxCode
MaxCode == 2

\* the most ConcurrentCommand objects alive at once
MaxObjects == 2
\* the most members of all ConcurrentCommand objects together
MaxMembers == 6

\* the most arguments bound to the members of all aggregates together
MaxBound == 3
\* the most commands given to the constructor of an aggregate
MaxGiven == 2
\* the most members of all aggregates together where aggregates are also
\* constructed and bound
MaxAggregate == 4

\* the most sessions of a ClusterSession
MaxSessions == 2
\* the most calls of close on one underlying session
MaxCloses == 3

\* the most machines of a Cluster
MaxMachines == 3

(* ----------------------------- Python values -------------------------- *)
\* Python's None is the empty tuple and a present value v the 1-tuple <<v>>,
\* so that "x is None" is x = None whatever the type of v.
None == <<>>
Some(v) == <<v>>

ExitCodes == 0..MaxCode
\* communicate(input): absent, empty, non-empty
Inputs == {None, Some(""), Some("data")}

\* Python truthiness of an optional string: None and "" are falsy
Truthy(x) == x # None /\ x[1] # ""

VARIABLES
    procs,          \* ConcurrentPopen.procs: the children, [rc, pid] each;
                    \* rc is the child's status, None while it runs
    returncode,     \* ConcurrentPopen.returncode, None until resolved
    pc,             \* where the calling thread is inside the handle
    call,           \* the method the caller invoked: poll, wait, communicate
    idx,            \* the loop position in self.procs (1-based)
    rcs,            \* poll's local list rcs
    out_err_tuples, \* communicate's local list out_err_tuples
    atCall,         \* the handle as it was when the caller's call began
    log,            \* the child methods called during the caller's call
    ret,            \* what the caller's last call returned or raised
    outOfOrder,     \* some child finished while an earlier member still ran
    heap,           \* the ConcurrentCommand objects: heap[o] is object o's
                    \* list self.commands
    tree,           \* the '&' expression that built each object
    result,         \* what the last operation on commands returned or
                    \* raised
    spawned,        \* the children the last popen spawned, in spawn order
    handle,         \* procs of the ConcurrentPopen the last popen returned
    machines,       \* Cluster.machines: the hosts, in order, repeats allowed
    installed,      \* the programs each host has
    up,             \* whether each host can be reached
    cret,           \* what the last operation on the Cluster gave
    contacts,       \* the hosts that operation called, in call order
    asPc,           \* where a "with cluster.as_user()" is
    ctxs,           \* the context managers mach.as_user(user) gave, by member
    asK,            \* nested(): the next manager to enter
    entered,        \* nested(): the members whose __enter__ returned
    exits,          \* nested(): the stack exits
    exc,            \* nested(): the pending exception exc, None for none
    yielded,        \* whether nested() reached its yield (the body ran)
    exitLog,        \* the members whose __exit__ was called, in call order
    outcome,        \* how the with statement ended for the caller
    sessions,       \* ClusterSession.sessions: a tuple or list of shells,
                    \* each the index of its shell in shells
    shells,         \* the underlying sessions: alive or not, how often
                    \* close was called on each, whether its close raises
    sret            \* what the last call on the ClusterSession gave

popenVars == <<procs, returncode, pc, call, idx, rcs, out_err_tuples,
               atCall, log, ret, outOfOrder>>

commandVars == <<heap, tree, result, spawned, handle>>

clusterVars == <<machines, installed, up, cret, contacts>>

asUserVars == <<asPc, ctxs, asK, entered, exits, exc, yielded, exitLog,
                outcome>>

sessionVars == <<sessions, shells, sret>>

vars == <<popenVars, commandVars, clusterVars, asUserVars, sessionVars>>

\* a step of one component leaves the other components alone
PopenFrame == UNCHANGED <<commandVars, clusterVars, asUserVars, sessionVars>>
CommandFrame == UNCHANGED <<popenVars, clusterVars, asUserVars, sessionVars>>
ClusterFrame == UNCHANGED <<popenVars, commandVars, asUserVars, sessionVars>>
AsUserFrame == UNCHANGED <<popenVars, commandVars, clusterVars, sessionVars>>
SessionFrame == UNCHANGED <<popenVars, commandVars, clusterVars, asUserVars>>

(* ------------------- the ProcessHandle collaborator ------------------- *)
\* proc.poll(): the exit status, None while the child runs
ProcPoll(p) == p.rc
\* whether a blocking proc.wait() / proc.communicate() can return
ProcFinished(p) == p.rc # None
\* what the child wrote: told from another child's by the child's pid
ProcStdout(p) == <<"stdout", p.pid>>
ProcStderr(p) == <<"stderr", p.pid>>
\* proc.communicate(): the (stdout, stderr) pair of the finished child
ProcCommunicate(p) == <<ProcStdout(p), ProcStderr(p)>>

(* --------------------------- ConcurrentPopen -------------------------- *)
NoRet == [op |-> "none", value |-> None, output |-> <<>>, exc |-> "none"]

\* the slip "if self.returncode": a cached 0 taken for no result
PollCachedTruthy(rc) == rc # None /\ rc # Some(0)
\* "if self.returncode is not None": a result is cached (0 counts)
PollCached(rc) == rc # None

\* the slip of a loop that stops polling at the first running child
PollLoopDoneShort(i, polled) ==
    i > Len(procs) \/ (Len(polled) > 0 /\ polled[Len(polled)] = None)
\* the slip of a loop that leaves the last child out
PollLoopDoneButLast(i, polled) == i >= Len(procs)
\* the comprehension over self.procs has polled every child
PollLoopDone(i, polled) == i > Len(procs)

\* any(rc is None for rc in rcs)
AnyRunning(polled) == \E k \in 1..Len(polled) : polled[k] = None

\* returncode = 0; for rc in rcs: if rc != 0: returncode = rc; break
RECURSIVE FirstFailureFrom(_, _)
FirstFailureFrom(polled, k) ==
    IF k > Len(polled) THEN 0
    ELSE IF polled[k][1] # 0 THEN polled[k][1]
    ELSE FirstFailureFrom(polled, k + 1)

\* the slip of a loop without the break: the last non-zero status wins
RECURSIVE LastFailureFrom(_, _, _)
LastFailureFrom(polled, k, acc) ==
    IF k > Len(polled) THEN acc
    ELSE LastFailureFrom(polled, k + 1,
                         IF polled[k][1] # 0 THEN polled[k][1] ELSE acc)

FirstFailureLast(polled) == LastFailureFrom(polled, 1, 0)
FirstFailure(polled) == FirstFailureFrom(polled, 1)

\* the slip of a wait() that stops joining once a child exited non-zero
WaitLoopDoneShort(i) ==
    i > Len(procs) \/ (i > 1 /\ procs[i - 1].rc # Some(0))
\* "for proc in self.procs" of wait() has joined every child
WaitLoopDone(i) == i > Len(procs)

\* the slip "if input is not None": empty input rejected too
InputRejectedNotNone(input) == input # None
\* "if input": communicate rejects the call
InputRejected(input) == Truthy(input)

\* zip(*seqs): tuple j of the result holds element j of every sequence;
\* as long as the shortest sequence, empty for no sequence at all
MinLen(seqs) ==
    IF seqs = <<>> THEN 0
    ELSE CHOOSE n \in {Len(seqs[k]) : k \in 1..Len(seqs)} :
             \A k \in 1..Len(seqs) : n <= Len(seqs[k])
ZipStar(seqs) ==
    [j \in 1..MinLen(seqs) |-> [k \in 1..Len(seqs) |-> seqs[k][j]]]

\* the slip of returning out_err_tuples as it is, not transposed
CommunicateResultRaw(tuples) == tuples
\* tuple(zip(*out_err_tuples))
CommunicateResult(tuples) == ZipStar(tuples)

\* the caller's call of method m returns, its trailing self.poll() giving v:
\* poll and wait return v, communicate drops it and returns the outputs
Return(m, v) ==
    /\ pc' = "idle"
    /\ ret' = [op |-> m,
               value |-> IF m = "communicate" THEN None ELSE v,
               output |-> IF m = "communicate"
                          THEN CommunicateResult(out_err_tuples) ELSE <<>>,
               exc |-> "none"]

\* the caller begins a call of method m
Begin(m, input) ==
    /\ pc = "idle"
    /\ call' = m
    /\ atCall' = [returncode |-> returncode,
                  allFinished |-> \A k \in 1..Len(procs) : ProcFinished(procs[k]),
                  input |-> input]
    /\ log' = <<>>
    /\ out_err_tuples' = <<>>

\* poll(), lines 45-47: the cached result, or start polling the children
EnterPoll(m) ==
    /\ idx' = 1
    /\ rcs' = <<>>
    /\ IF PollCached(returncode)
       THEN Return(m, returncode)
       ELSE /\ pc' = "poll_children"
            /\ ret' = NoRet

CallPoll ==
    /\ Begin("poll", None)
    /\ EnterPoll("poll")
    /\ UNCHANGED <<procs, returncode, outOfOrder>>
    /\ PopenFrame

\* rcs = [proc.poll() for proc in self.procs], one child
PollChild ==
    /\ pc = "poll_children"
    /\ ~PollLoopDone(idx, rcs)
    /\ rcs' = Append(rcs, ProcPoll(procs[idx]))
    /\ log' = Append(log, <<"poll", idx>>)
    /\ idx' = idx + 1
    /\ UNCHANGED <<procs, returncode, pc, call, out_err_tuples, atCall, ret,
                   outOfOrder>>
    /\ PopenFrame

\* poll(), lines 48-55
PollFinish ==
    /\ pc = "poll_children"
    /\ PollLoopDone(idx, rcs)
    /\ IF AnyRunning(rcs)
       THEN /\ Return(call, None)
            /\ UNCHANGED returncode
       ELSE /\ returncode' = Some(FirstFailure(rcs))
            /\ Return(call, returncode')
    /\ UNCHANGED <<procs, call, idx, rcs, out_err_tuples, atCall, log,
                   outOfOrder>>
    /\ PopenFrame

CallWait ==
    /\ Begin("wait", None)
    /\ pc' = "wait_children"
    /\ idx' = 1
    /\ rcs' = <<>>
    /\ ret' = NoRet
    /\ UNCHANGED <<procs, returncode, outOfOrder>>
    /\ PopenFrame

\* proc.wait() for one child: blocks until that child has finished
WaitChild ==
    /\ pc = "wait_children"
    /\ ~WaitLoopDone(idx)
    /\ ProcFinished(procs[idx])
    /\ log' = Append(log, <<"wait", idx>>)
    /\ idx' = idx + 1
    /\ UNCHANGED <<procs, returncode, pc, call, rcs, out_err_tuples, atCall,
                   ret, outOfOrder>>
    /\ PopenFrame

\* wait(), line 60: return self.poll()
WaitFinish ==
    /\ pc = "wait_children"
    /\ WaitLoopDone(idx)
    /\ EnterPoll(call)
    /\ UNCHANGED <<procs, returncode, call, out_err_tuples, atCall, log,
                   outOfOrder>>
    /\ PopenFrame

CallCommunicate(input) ==
    /\ Begin("communicate", input)
    /\ idx' = 1
    /\ rcs' = <<>>
    /\ IF InputRejected(input)
       THEN /\ pc' = "idle"
            /\ ret' = [op |-> "communicate", value |-> None, output |-> <<>>,
                       exc |-> "ValueError"]
       ELSE /\ pc' = "communicate_children"
            /\ ret' = NoRet
    /\ UNCHANGED <<procs, returncode, outOfOrder>>
    /\ PopenFrame

\* proc.communicate() for one child: drains it, returns when it has finished
CommunicateChild ==
    /\ pc = "communicate_children"
    /\ idx <= Len(procs)
    /\ ProcFinished(procs[idx])
    /\ out_err_tuples' = Append(out_err_tuples, ProcCommunicate(procs[idx]))
    /\ log' = Append(log, <<"communicate", idx>>)
    /\ idx' = idx + 1
    /\ UNCHANGED <<procs, returncode, pc, call, rcs, atCall, ret, outOfOrder>>
    /\ PopenFrame

\* communicate(), line 65: self.wait()
CommunicateWait ==
    /\ pc = "communicate_children"
    /\ idx > Len(procs)
    /\ pc' = "wait_children"
    /\ idx' = 1
    /\ UNCHANGED <<procs, returncode, call, rcs, out_err_tuples, atCall, log,
                   ret, outOfOrder>>
    /\ PopenFrame

\* a running child exits with status rc, whatever the caller is doing
ChildFinish(i, rc) ==
    /\ procs[i].rc = None
    /\ procs' = [procs EXCEPT ![i].rc = Some(rc)]
    /\ outOfOrder' = (outOfOrder \/ \E k \in 1..(i - 1) : procs[k].rc = None)
    /\ UNCHANGED <<returncode, pc, call, idx, rcs, out_err_tuples, atCall,
                   log, ret>>
    /\ PopenFrame

\* ConcurrentPopen(procs): the handle right after popen
PopenInit ==
    /\ \E n \in 0..MaxProcs : \E r \in 0..(IF n = 0 THEN 0 ELSE n - 1) :
           \* n running children, their pids 1..n in some rotation
           procs = [k \in 1..n |-> [rc |-> None, pid |-> ((k + r) % n) + 1]]
    /\ returncode = None
    /\ pc = "idle"
    /\ call = "none"
    /\ idx = 1
    /\ rcs = <<>>
    /\ out_err_tuples = <<>>
    /\ atCall = [returncode |-> None, allFinished |-> FALSE, input |-> None]
    /\ log = <<>>
    /\ ret = NoRet
    /\ outOfOrder = FALSE

CallerStep ==
    \/ PollChild
    \/ PollFinish
    \/ WaitChild
    \/ WaitFinish
    \/ CommunicateChild
    \/ CommunicateWait

PopenNext ==
    \/ CallPoll
    \/ CallWait
    \/ \E input \in Inputs : CallCommunicate(input)
    \/ CallerStep
    \/ \E i \in 1..Len(procs) : \E rc \in ExitCodes : ChildFinish(i, rc)

(* ------------------ make_concurrent: the '&' operator ----------------- *)
\* the plain (non-aggregate) commands there are
Names == {"a", "b", "c"}

\* a Python value: a plain command, a reference to ConcurrentCommand object
\* o of the heap, something that is no command, or NotImplemented
\* (a plain command carries the arguments bound to it so far)
Plain(n) == [kind |-> "cmd", name |-> n, id |-> 0, args |-> << >>]
Agg(o) == [kind |-> "agg", name |-> "", id |-> o, args |-> << >>]
NonCommand == [kind |-> "other", name |-> "", id |-> 0, args |-> << >>]
NotImplemented ==
    [kind |-> "NotImplemented", name |-> "", id |-> 0, args |-> << >>]
NoResult == [kind |-> "none", name |-> "", id |-> 0, args |-> << >>]
\* an exception that reached the caller; a ConcurrentPopen returned
RaisedError(e) == [kind |-> e, name |-> "", id |-> 0, args |-> << >>]
PopenHandle == [kind |-> "popen", name |-> "", id |-> 0, args |-> << >>]

\* isinstance(v, BaseCommand), isinstance(v, ConcurrentCommand)
IsBaseCommand(v) == v.kind \in {"cmd", "agg"}
IsConcurrentCommand(v) == v.kind = "agg"

\* list.extend, list.append, list.insert(0, x)
ListExtend(l, more) == l \o more
ListAppend(l, x) == Append(l, x)
\* the slip of appending where line 25 inserts at index 0
ListInsertFirstAtEnd(l, x) == Append(l, x)
ListInsertFirst(l, x) == <<x>> \o l

\* ConcurrentCommand(*commands): a new object holding list(commands)
NewConcurrentCommand(h, commands) ==
    [heap |-> Append(h, commands), result |-> Agg(Len(h) + 1)]

\* the slip of an '&' that always builds a new aggregate from the members
\* of its operands
MakeConcurrentFresh(h, self, rhs) ==
    IF ~IsBaseCommand(rhs)
    THEN [heap |-> h, result |-> NotImplemented]
    ELSE NewConcurrentCommand(h,
             (IF IsConcurrentCommand(self) THEN h[self.id] ELSE <<self>>)
             \o (IF IsConcurrentCommand(rhs) THEN h[rhs.id] ELSE <<rhs>>))
\* make_concurrent(self, rhs) on heap h: the heap afterwards and the value
\* returned
MakeConcurrent(h, self, rhs) ==
    IF ~IsBaseCommand(rhs)
    THEN [heap |-> h, result |-> NotImplemented]
    ELSE IF IsConcurrentCommand(self)
    THEN [heap |-> [h EXCEPT ![self.id] =
                       IF IsConcurrentCommand(rhs)
                       THEN ListExtend(@, h[rhs.id])
                       ELSE ListAppend(@, rhs)],
          result |-> self]
    ELSE IF IsConcurrentCommand(rhs)
    THEN [heap |-> [h EXCEPT ![rhs.id] = ListInsertFirst(@, self)],
          result |-> rhs]
    ELSE NewConcurrentCommand(h, <<self, rhs>>)

\* the values an '&' can be applied to
Operands == {Plain(n) : n \in Names} \cup {Agg(o) : o \in 1..Len(heap)}

RECURSIVE SumLen(_)
SumLen(h) == IF h = <<>> THEN 0 ELSE Len(Head(h)) + SumLen(Tail(h))

\* the expression that built a value: <<name>> for a plain command,
\* <<left, right>> for the result of left & right
TreeOf(v) == IF v.kind = "agg" THEN tree[v.id] ELSE <<v.name>>

\* self & rhs, BaseCommand.__and__ = make_concurrent
Combine(self, rhs) ==
    LET mc == MakeConcurrent(heap, self, rhs)
        built == <<TreeOf(self), TreeOf(rhs)>>
    IN  /\ Len(mc.heap) <= MaxObjects
        /\ SumLen(mc.heap) <= MaxMembers
        /\ heap' = mc.heap
        /\ result' = mc.result
        /\ tree' = IF mc.result.kind # "agg" THEN tree
                   ELSE IF mc.result.id > Len(tree) THEN Append(tree, built)
                   ELSE [tree EXCEPT ![mc.result.id] = built]
        /\ UNCHANGED <<spawned, handle>>
        /\ CommandFrame

\* self & rhs for an rhs that is no command
CombineNonCommand(self) ==
    LET mc == MakeConcurrent(heap, self, NonCommand)
    IN  /\ heap' = mc.heap
        /\ result' = mc.result
        /\ UNCHANGED <<tree, spawned, handle>>
        /\ CommandFrame

(* ------------------------- ConcurrentCommand -------------------------- *)
\* the slip of a constructor without line 73
ConstructorRejectsNothing(commands) == FALSE
\* "assert commands, ...": an empty tuple of commands fails the assertion
ConstructorRejects(commands) == commands = << >>

\* the expression a & b & ... that names the commands given, in order
RECURSIVE TreeOfList(_)
TreeOfList(cmds) ==
    IF cmds = << >> THEN << >>
    ELSE IF Len(cmds) = 1 THEN <<cmds[1].name>>
    ELSE <<TreeOfList(SubSeq(cmds, 1, Len(cmds) - 1)),
           <<cmds[Len(cmds)].name>> >>

\* ConcurrentCommand(*commands): the message of the failing assertion is the
\* call of a name the module does not define, which raises NameError
Construct(commands) ==
    LET new == IF ConstructorRejects(commands)
               THEN [heap |-> heap, result |-> RaisedError("NameError")]
               ELSE NewConcurrentCommand(heap, commands)
    IN  /\ Len(new.heap) <= MaxObjects
        /\ SumLen(new.heap) <= MaxMembers
        /\ heap' = new.heap
        /\ result' = new.result
        /\ tree' = IF Len(new.heap) > Len(tree)
                   THEN Append(tree, TreeOfList(commands))
                   ELSE tree
        /\ UNCHANGED <<spawned, handle>>
        /\ CommandFrame

\* what is written between the brackets of cmd[...]: a list or tuple of
\* arguments, or one bare argument
ArgList(q) == [bare |-> FALSE, value |-> "", items |-> q]
BareArg(x) == [bare |-> TRUE, value |-> x, items |-> << >>]
Subscripts == {ArgList(<< >>), ArgList(<<"-l">>), BareArg("-l")}

\* isinstance(args, (tuple, list))
IsTupleOrList(a) == ~a.bare
\* lines 87-88: a bare argument becomes a list of one
AsArgs(a) == IF ~IsTupleOrList(a) THEN <<a.value>> ELSE a.items

\* cmd[args] on a plain command: a command with args bound after the
\* arguments it has
BindMember(cmd, args) == [cmd EXCEPT !.args = @ \o args]

RECURSIVE CountArgs(_)
CountArgs(l) ==
    IF l = << >> THEN 0 ELSE Len(Head(l).args) + CountArgs(Tail(l))
RECURSIVE SumArgs(_)
SumArgs(h) == IF h = << >> THEN 0 ELSE CountArgs(Head(h)) + SumArgs(Tail(h))

\* the slip of binding the members in place and returning self
BindArgsInPlace(h, self, a) ==
    [heap |-> [h EXCEPT ![self.id] =
                   [k \in 1..Len(@) |-> BindMember(@[k], AsArgs(a))]],
     result |-> self]
\* ConcurrentCommand.__getitem__(self, args) on heap h: the heap afterwards
\* and the value returned
BindArgs(h, self, a) ==
    LET args == AsArgs(a)
    IN  IF args = << >>
        THEN [heap |-> h, result |-> self]
        ELSE NewConcurrentCommand(h,
                 [k \in 1..Len(h[self.id]) |->
                      BindMember(h[self.id][k], args)])

\* self[a] on an aggregate
Bind(self, a) ==
    LET b == BindArgs(heap, self, a)
    IN  /\ Len(b.heap) <= MaxObjects
        /\ SumLen(b.heap) <= MaxMembers
        /\ SumArgs(b.heap) <= MaxBound
        /\ heap' = b.heap
        /\ result' = b.result
        /\ tree' = IF Len(b.heap) > Len(tree)
                   THEN Append(tree, tree[self.id])
                   ELSE tree
        /\ UNCHANGED <<spawned, handle>>
        /\ CommandFrame

\* cmd.popen() of a member: it raises for the commands that cannot be
\* spawned
SpawnRaises(cmd, broken) == cmd.name \in broken
\* the child spawned from member k, and the methods called on it since
Child(k, cmd) == [of |-> k, cmd |-> cmd, calls |-> << >>]

\* the slip of a comprehension that skips the members whose spawn raises
RECURSIVE SpawnFromSkipping(_, _, _, _, _)
SpawnFromSkipping(cmds, k, args, broken, done) ==
    IF k > Len(cmds) THEN [exc |-> "none", children |-> done]
    ELSE SpawnFromSkipping(cmds, k + 1, args, broken,
             IF SpawnRaises(BindMember(cmds[k], args), broken) THEN done
             ELSE Append(done, Child(k, BindMember(cmds[k], args))))
\* [cmd[args].popen(**kwargs) for cmd in self.commands] from member k on,
\* done being the children spawned so far
RECURSIVE SpawnFrom(_, _, _, _, _)
SpawnFrom(cmds, k, args, broken, done) ==
    IF k > Len(cmds) THEN [exc |-> "none", children |-> done]
    ELSE IF SpawnRaises(BindMember(cmds[k], args), broken)
    THEN [exc |-> "SpawnError", children |-> done]
    ELSE SpawnFrom(cmds, k + 1, args, broken,
             Append(done, Child(k, BindMember(cmds[k], args))))

\* the sets of commands that cannot be spawned: none, or one command
Breakages == {{}} \cup {{n} : n \in Names}
\* the tuples *args of popen(*args)
PopenArgs == {<< >>, <<"-l">>}

\* self.popen(*args) on an aggregate, the commands of broken failing to spawn
Popen(self, args, broken) ==
    LET r == SpawnFrom(heap[self.id], 1, args, broken, << >>)
    IN  /\ spawned' = r.children
        /\ handle' = IF r.exc = "none" THEN Some(r.children) ELSE None
        /\ result' = IF r.exc = "none" THEN PopenHandle
                     ELSE RaisedError(r.exc)
        /\ UNCHANGED <<heap, tree>>
        /\ CommandFrame

CommandIdle ==
    /\ heap = <<>>
    /\ tree = <<>>
    /\ result = NoResult
    /\ spawned = << >>
    /\ handle = None

PopenIdle ==
    /\ procs = <<>>
    /\ returncode = None
    /\ pc = "idle"
    /\ call = "none"
    /\ idx = 1
    /\ rcs = <<>>
    /\ out_err_tuples = <<>>
    /\ atCall = [returncode |-> None, allFinished |-> FALSE, input |-> None]
    /\ log = <<>>
    /\ ret = NoRet
    /\ outOfOrder = FALSE

(* ------------------------------- Cluster ------------------------------ *)
Hosts == {"h1", "h2"}
\* the program names asked for
Progs == {"ls", "zz"}

\* what a call on one machine gives: an exception or a value
Raised(e) == [exc |-> e, value |-> <<"", "", "">>]
Value(what, h, arg) == [exc |-> "none", value |-> <<what, h, arg>>]

\* mach.which(progname), mach[progname]: the program must be on the host;
\* every call needs the host to be reachable
MachCall(h, op, arg) ==
    IF ~up[h] THEN Raised("TransportError")
    ELSE IF op \in {"which", "getitem"} /\ arg \notin installed[h]
    THEN Raised("CommandNotFound")
    ELSE Value(op, h, arg)

\* [mach.op(arg) for mach in self]: the values in member order, or the
\* first exception, no machine after the raising one being called
RECURSIVE ForEachMachine(_, _, _, _, _)
ForEachMachine(ms, op, arg, items, called) ==
    IF ms = <<>>
    THEN [exc |-> "none", items |-> items, contacts |-> called]
    ELSE LET r == MachCall(Head(ms), op, arg)
         IN  IF r.exc # "none"
             THEN [exc |-> r.exc, items |-> <<>>,
                   contacts |-> Append(called, Head(ms))]
             ELSE ForEachMachine(Tail(ms), op, arg, Append(items, r.value),
                                 Append(called, Head(ms)))

\* the slip of a missing guard
IsEmptyNever(ms) == FALSE
\* "if not self.machines"
IsEmpty(ms) == ms = <<>>

\* the keys a Cluster is indexed by: a name, an int, a slice lo:hi, or
\* something else
StrKey(n) == [kind |-> "str", name |-> n, lo |-> 0, hi |-> 0]
IntKey(i) == [kind |-> "int", name |-> "", lo |-> i, hi |-> 0]
SliceKey(lo, hi) == [kind |-> "slice", name |-> "", lo |-> lo, hi |-> hi]
OtherKey == [kind |-> "other", name |-> "", lo |-> 0, hi |-> 0]
NoKey == [kind |-> "none", name |-> "", lo |-> 0, hi |-> 0]
Keys ==
    {StrKey(n) : n \in Progs}
        \cup {IntKey(i) : i \in -1..MaxMachines}
        \cup {SliceKey(lo, hi) : lo \in 0..1, hi \in 1..MaxMachines}
        \cup {OtherKey}

Outcome(e, kind, items, called) ==
    [exc |-> e, kind |-> kind, items |-> items, contacts |-> called]

Min(a, b) == IF a <= b THEN a ELSE b
MachineItems(ms) == [k \in 1..Len(ms) |-> <<"machine", ms[k], "">>]

\* Cluster.__getitem__(key)
GetItem(key) ==
    IF key.kind = "int"
    THEN \* self.machines[i]: from the end for i < 0, IndexError outside
         LET i == IF key.lo < 0 THEN key.lo + Len(machines) ELSE key.lo
         IN  IF i < 0 \/ i >= Len(machines)
             THEN Outcome("IndexError", "none", <<>>, <<>>)
             ELSE Outcome("none", "machine",
                          <<<<"machine", machines[i + 1], "">>>>, <<>>)
    ELSE IF key.kind = "slice"
    THEN Outcome("none", "Cluster",
                 MachineItems(SubSeq(machines, key.lo + 1,
                                     Min(key.hi, Len(machines)))), <<>>)
    ELSE IF key.kind # "str"
    THEN Outcome("TypeError", "none", <<>>, <<>>)
    ELSE IF IsEmpty(machines)
    THEN Outcome("EmptyCluster", "none", <<>>, <<>>)
    ELSE LET r == ForEachMachine(machines, "getitem", key.name, <<>>, <<>>)
         IN  IF r.exc # "none"
             THEN Outcome(r.exc, "none", <<>>, r.contacts)
             ELSE Outcome("none", "ConcurrentCommand", r.items, r.contacts)

\* the slip "except Exception": every error reported as not found
ContainsCatchesAny(e) == e # "none"
\* "except CommandNotFound"
ContainsCatches(e) == e = "CommandNotFound"

\* Cluster.__contains__(cmd)
Contains(key) ==
    LET r == GetItem(key)
    IN  IF ContainsCatches(r.exc)
        THEN [exc |-> "none", kind |-> "bool", flag |-> FALSE,
              contacts |-> r.contacts]
        ELSE IF r.exc # "none"
        THEN [exc |-> r.exc, kind |-> "none", flag |-> FALSE,
              contacts |-> r.contacts]
        ELSE [exc |-> "none", kind |-> "bool", flag |-> TRUE,
              contacts |-> r.contacts]

\* Cluster.python and Cluster.session(): the guard, then one call a machine
Guarded(op, kind) ==
    IF IsEmpty(machines)
    THEN Outcome("EmptyCluster", "none", <<>>, <<>>)
    ELSE LET r == ForEachMachine(machines, op, "", <<>>, <<>>)
         IN  IF r.exc # "none"
             THEN Outcome(r.exc, "none", <<>>, r.contacts)
             ELSE Outcome("none", kind, r.items, r.contacts)

\* Cluster.which, list_processes, pgrep, path
BroadcastOps == {"which", "list_processes", "pgrep", "path"}
Broadcast(op, arg) ==
    LET r == ForEachMachine(machines, op, arg, <<>>, <<>>)
    IN  IF r.exc # "none"
        THEN Outcome(r.exc, "none", <<>>, r.contacts)
        ELSE Outcome("none", "list", r.items, r.contacts)

\* the operation op(key or arg) on the Cluster gave r
Gave(op, key, arg, r, flag) ==
    /\ cret' = [op |-> op, key |-> key, arg |-> arg, exc |-> r.exc,
                kind |-> r.kind, items |-> r.items, flag |-> flag]
    /\ contacts' = r.contacts
    /\ UNCHANGED <<machines, installed, up>>
    /\ ClusterFrame

NoCret == [op |-> "none", key |-> NoKey, arg |-> "", exc |-> "none",
           kind |-> "none", items |-> <<>>, flag |-> FALSE]

CallBroadcast(op, arg) ==
    Gave(op, NoKey, arg, Broadcast(op, arg), FALSE)

CallGetItem(key) ==
    Gave("getitem", key, "", GetItem(key), FALSE)

CallContains(key) ==
    LET r == Contains(key)
    IN  Gave("contains", key, "",
             Outcome(r.exc, r.kind, <<>>, r.contacts), r.flag)

CallPython ==
    Gave("python", NoKey, "", Guarded("python", "ConcurrentCommand"), FALSE)

CallSession ==
    Gave("session", NoKey, "", Guarded("session", "ClusterSession"), FALSE)

\* Cluster.add_machine(machine)
AddMachine(h) ==
    /\ Len(machines) < MaxMachines
    /\ machines' = Append(machines, h)
    /\ cret' = NoCret
    /\ contacts' = <<>>
    /\ UNCHANGED <<installed, up>>
    /\ ClusterFrame

\* the slip of clearing the list in a finally clause
MachinesAfterCloseCleared(ms, e) == << >>
\* the slip of a close without line 106
MachinesAfterCloseKept(ms, e) == ms
\* "del self.machines[:]" is reached when no mach.close() raised
MachinesAfterClose(ms, e) == IF e = "none" THEN << >> ELSE ms

\* Cluster.close(): what it raises, the machines it called close on, and
\* self.machines afterwards
Close(ms) ==
    LET r == ForEachMachine(ms, "close", "", << >>, << >>)
    IN  [exc |-> r.exc, contacts |-> r.contacts,
         machines |-> MachinesAfterClose(ms, r.exc)]

\* cluster.close()
CallClose ==
    LET r == Close(machines)
    IN  /\ machines' = r.machines
        /\ contacts' = r.contacts
        /\ cret' = [NoCret EXCEPT !.op = "close", !.exc = r.exc]
        /\ UNCHANGED <<installed, up>>
        /\ ClusterFrame

\* leaving "with cluster:", the body having raised or not: __exit__ calls
\* close() and returns None, so an error of the body goes on to the caller
\* unless close() raises its own
CallExit(bodyRaised) ==
    LET r == Close(machines)
    IN  /\ machines' = r.machines
        /\ contacts' = r.contacts
        /\ cret' = [NoCret EXCEPT
                        !.op = "exit",
                        !.exc = IF r.exc # "none" THEN r.exc
                                ELSE IF bodyRaised THEN "BodyError"
                                ELSE "none"]
        /\ UNCHANGED <<installed, up>>
        /\ ClusterFrame

\* the sequences over S of length at most n
SeqsUpTo(S, n) == UNION {[1..k -> S] : k \in 0..n}

\* Cluster(*machines), on hosts in any condition
ClusterInit ==
    /\ machines \in SeqsUpTo(Hosts, MaxMachines)
    /\ installed \in [Hosts -> SUBSET Progs]
    /\ up \in [Hosts -> BOOLEAN]
    /\ cret = NoCret
    /\ contacts = <<>>

ClusterIdle ==
    /\ machines = <<>>
    /\ installed = [h \in Hosts |-> Progs]
    /\ up = [h \in Hosts |-> TRUE]
    /\ cret = NoCret
    /\ contacts = <<>>

ClusterNext ==
    \/ \E op \in BroadcastOps : \E arg \in Progs : CallBroadcast(op, arg)
    \/ \E key \in Keys : CallGetItem(key)
    \/ \E key \in Keys : CallContains(key)
    \/ CallPython
    \/ CallSession
    \/ \E h \in Hosts : AddMachine(h)
    \/ CallClose
    \/ \E bodyRaised \in BOOLEAN : CallExit(bodyRaised)

(* ------------------------- Cluster.as_user ---------------------------- *)
\* what a machine's as_user context does: __enter__ returns or raises;
\* __exit__ returns a false value, returns a true value, or raises
CtxBehaviours ==
    [enter : {"ok", "raise"}, exit : {"ok", "suppress", "raise"}]

\* with cluster.as_user(user): nested(*(mach.as_user(user) for mach in self))
AsUserCall ==
    /\ asPc = "idle"
    /\ \E cs \in [1..Len(machines) -> CtxBehaviours] : ctxs' = cs
    /\ asPc' = "entering"
    /\ asK' = 1
    /\ entered' = <<>>
    /\ exits' = <<>>
    /\ exc' = None
    /\ yielded' = FALSE
    /\ exitLog' = <<>>
    /\ outcome' = "pending"
    /\ AsUserFrame

\* nested(), lines 238-241: enter the next manager
NestedEnter ==
    /\ asPc = "entering"
    /\ asK <= Len(ctxs)
    /\ IF ctxs[asK].enter = "raise"
       THEN \* caught by "except:", line 243
            /\ exc' = Some(<<"enter", asK>>)
            /\ asPc' = "exiting"
            /\ UNCHANGED <<asK, entered, exits>>
       ELSE /\ entered' = Append(entered, asK)
            /\ exits' = Append(exits, asK)
            /\ asK' = asK + 1
            /\ UNCHANGED <<exc, asPc>>
    /\ UNCHANGED <<ctxs, yielded, exitLog, outcome>>
    /\ AsUserFrame

\* nested(), lines 242-244: yield vars; the body of the with statement runs
\* and returns or raises
NestedYield(raises) ==
    /\ asPc = "entering"
    /\ asK > Len(ctxs)
    /\ yielded' = TRUE
    /\ exc' = IF raises THEN Some(<<"body", 0>>) ELSE None
    /\ asPc' = "exiting"
    /\ UNCHANGED <<ctxs, asK, entered, exits, exitLog, outcome>>
    /\ AsUserFrame

\* the slip of an exit loop without try/except: a raising exit ends it
ExitsAfterRaiseNone(rest) == <<>>
\* the exits still to call once an exit has raised: all that are left
ExitsAfterRaise(rest) == rest

\* nested(), lines 246-252: pop one exit and call it with exc
NestedExit ==
    /\ asPc = "exiting"
    /\ exits # <<>>
    /\ LET e == exits[Len(exits)]
           rest == SubSeq(exits, 1, Len(exits) - 1)
       IN  /\ exitLog' = Append(exitLog, e)
           /\ IF ctxs[e].exit = "raise"
              THEN /\ exc' = Some(<<"exit", e>>)
                   /\ exits' = ExitsAfterRaise(rest)
              ELSE /\ exc' = IF ctxs[e].exit = "suppress" THEN None ELSE exc
                   /\ exits' = rest
    /\ UNCHANGED <<asPc, ctxs, asK, entered, yielded, outcome>>
    /\ AsUserFrame

\* nested(), lines 253-255, and the contextmanager wrapping it: a pending exc
\* is raised; a generator that ends without having yielded is a RuntimeError
NestedFinish ==
    /\ asPc = "exiting"
    /\ exits = <<>>
    /\ outcome' = IF exc # None THEN "raised"
                  ELSE IF ~yielded THEN "RuntimeError"
                  ELSE "returned"
    /\ asPc' = "idle"
    /\ UNCHANGED <<ctxs, asK, entered, exits, exc, yielded, exitLog>>
    /\ AsUserFrame

AsUserIdle ==
    /\ asPc = "idle"
    /\ ctxs = <<>>
    /\ asK = 1
    /\ entered = <<>>
    /\ exits = <<>>
    /\ exc = None
    /\ yielded = FALSE
    /\ exitLog = <<>>
    /\ outcome = "none"

AsUserInit ==
    /\ machines \in SeqsUpTo(Hosts, MaxMachines)
    /\ installed = [h \in Hosts |-> Progs]
    /\ up = [h \in Hosts |-> TRUE]
    /\ cret = NoCret
    /\ contacts = <<>>
    /\ AsUserIdle

AsUserNext ==
    \/ AsUserCall
    \/ NestedEnter
    \/ \E raises \in BOOLEAN : NestedYield(raises)
    \/ NestedExit
    \/ NestedFinish

(* --------------------------- ClusterSession --------------------------- *)
\* a Python sequence: what *sessions collects is a tuple, list(...) a list
PyTuple(items) == [type |-> "tuple", items |-> items]
PyList(items) == [type |-> "list", items |-> items]

\* "del seq[:]": a list is emptied; a tuple supports no item deletion
DelSlice(seq) ==
    IF seq.type = "list"
    THEN [exc |-> "none", seq |-> [seq EXCEPT !.items = << >>]]
    ELSE [exc |-> "TypeError", seq |-> seq]

\* a shell session just opened
Shell(fails) == [alive |-> TRUE, closes |-> 0, fails |-> fails]
\* session.close() on a shell: the shell ends; close raises for some shells
ShellClose(sh) == [sh EXCEPT !.alive = FALSE, !.closes = @ + 1]
ShellCloseRaises(sh) == sh.fails

\* session.alive, without a call: the bound method of the shell session
AliveAttribute(k) == [kind |-> "method", name |-> "alive", self |-> k]
\* truth value testing: a bool is its value, a method object is true
IsTrue(v) == IF v.kind = "bool" THEN v.value ELSE TRUE

\* "for session in self.sessions: session.close()" from item k on
RECURSIVE CloseFrom(_, _, _)
CloseFrom(shs, items, k) ==
    IF k > Len(items) THEN [exc |-> "none", shells |-> shs]
    ELSE LET closed == [shs EXCEPT ![items[k]] = ShellClose(@)]
         IN  IF ShellCloseRaises(shs[items[k]])
             THEN [exc |-> "CloseError", shells |-> closed]
             ELSE CloseFrom(closed, items, k + 1)

\* ClusterSession.close() on the sequence seq
SessionClose(seq, shs) ==
    LET r == CloseFrom(shs, seq.items, 1)
        d == DelSlice(seq)
    IN  IF r.exc # "none"
        THEN [exc |-> r.exc, shells |-> r.shells, sessions |-> seq]
        ELSE [exc |-> d.exc, shells |-> r.shells, sessions |-> d.seq]

\* all(session.alive for session in self)
SessionAlive(seq, shs) ==
    \A k \in 1..Len(seq.items) : IsTrue(AliveAttribute(seq.items[k]))

SomeDead == \E k \in 1..Len(sessions.items) : ~shells[sessions.items[k]].alive

Sret(op, e, value, dead) ==
    [op |-> op, exc |-> e, value |-> value, someDead |-> dead]
NoSret == Sret("none", "none", FALSE, FALSE)

\* the ClusterSession has not been destroyed
Live == sret.op # "del"
\* close is not called on one shell more often than the bound allows
CanClose ==
    \A k \in 1..Len(sessions.items) :
        shells[sessions.items[k]].closes < MaxCloses

\* a call of self.close() that lets through the error e, or none
Closing(op, e) ==
    LET r == SessionClose(sessions, shells)
    IN  /\ shells' = r.shells
        /\ sessions' = r.sessions
        /\ sret' = Sret(op, IF e = "any" THEN r.exc ELSE "none", FALSE, FALSE)
        /\ SessionFrame

\* cluster_session.close()
CallSessionClose == Live /\ CanClose /\ Closing("close", "any")
\* leaving "with cluster_session:": __exit__ calls close()
CallSessionExit == Live /\ CanClose /\ Closing("exit", "any")
\* __del__: close() inside "try ... except Exception: pass"
CallSessionDel == Live /\ CanClose /\ Closing("del", "none")

\* cluster_session.alive()
CallSessionAlive ==
    /\ Live
    /\ sret' = Sret("alive", "none", SessionAlive(sessions, shells), SomeDead)
    /\ UNCHANGED <<sessions, shells>>
    /\ SessionFrame

\* the shell of a session ends on its own
ShellDies(k) ==
    /\ shells[k].alive
    /\ shells' = [shells EXCEPT ![k].alive = FALSE]
    /\ UNCHANGED <<sessions, sret>>
    /\ SessionFrame

\* ClusterSession(*(mach.session() for mach in self)) of Cluster.session():
\* one shell a machine, at least one machine
SessionInit ==
    /\ \E n \in 1..MaxSessions :
           /\ sessions = PyTuple([k \in 1..n |-> k])
           /\ shells \in [1..n -> {Shell(f) : f \in BOOLEAN}]
    /\ sret = NoSret

SessionIdle ==
    /\ sessions = PyTuple(<< >>)
    /\ shells = << >>
    /\ sret = NoSret

SessionNext ==
    \/ CallSessionClose
    \/ CallSessionExit
    \/ CallSessionDel
    \/ CallSessionAlive
    \/ \E k \in 1..Len(shells) : ShellDies(k)

(* --------------------------- specifications --------------------------- *)
CommandInit ==
    CommandIdle /\ PopenIdle /\ ClusterIdle /\ AsUserIdle /\ SessionIdle

CommandNext ==
    \/ \E self \in Operands : \E rhs \in Operands : Combine(self, rhs)
    \/ \E self \in Operands : CombineNonCommand(self)

CommandSpec == CommandInit /\ [][CommandNext]_vars

\* construction, '&' and binding together, on fewer members
AggregateInit == CommandInit

Within == SumLen(heap') <= MaxAggregate

AggregateNext ==
    \/ \E self \in Operands : \E rhs \in Operands :
           Combine(self, rhs) /\ Within
    \/ \E commands \in SeqsUpTo({Plain(n) : n \in Names}, MaxGiven) :
           Construct(commands) /\ Within
    \/ \E o \in 1..Len(heap) : \E a \in Subscripts :
           Bind(Agg(o), a) /\ Within

AggregateSpec == AggregateInit /\ [][AggregateNext]_vars

\* spawning: one aggregate, constructed from one command or more
SpawnInit ==
    /\ \E commands \in SeqsUpTo({Plain(n) : n \in Names}, MaxProcs) :
           /\ ~ConstructorRejects(commands)
           /\ heap = NewConcurrentCommand(<< >>, commands).heap
           /\ tree = <<TreeOfList(commands)>>
    /\ result = NoResult
    /\ spawned = << >>
    /\ handle = None
    /\ PopenIdle
    /\ ClusterIdle
    /\ AsUserIdle
    /\ SessionIdle

SpawnNext ==
    \E o \in 1..Len(heap) : \E args \in PopenArgs :
        \E broken \in Breakages : Popen(Agg(o), args, broken)

SpawnSpec == SpawnInit /\ [][SpawnNext]_vars

ClusterSpecInit ==
    ClusterInit /\ PopenIdle /\ CommandIdle /\ AsUserIdle /\ SessionIdle

ClusterSpec == ClusterSpecInit /\ [][ClusterNext]_vars

AsUserSpecInit == AsUserInit /\ PopenIdle /\ CommandIdle /\ SessionIdle

AsUserSpec == AsUserSpecInit /\ [][AsUserNext]_vars

PopenSpecInit ==
    PopenInit /\ CommandIdle /\ ClusterIdle /\ AsUserIdle /\ SessionIdle

PopenSpec == PopenSpecInit /\ [][PopenNext]_vars

SessionSpecInit ==
    SessionInit /\ PopenIdle /\ CommandIdle /\ ClusterIdle /\ AsUserIdle

SessionSpec == SessionSpecInit /\ [][SessionNext]_vars

\* the calling thread keeps running: a step it can take, it takes
PopenFairSpec == PopenSpec /\ WF_vars(CallerStep)

(* ----------------------- claims: ConcurrentPopen ---------------------- *)
AllFinished == \A k \in 1..Len(procs) : procs[k].rc # None

\* the members that exited with a non-zero status
FailedMembers ==
    {k \in 1..Len(procs) : procs[k].rc # None /\ procs[k].rc # Some(0)}

\* 0 if no member failed, else the status of the failed member of least index
ExpectedStatus ==
    IF FailedMembers = {} THEN 0
    ELSE procs[CHOOSE k \in FailedMembers :
                   \A j \in FailedMembers : k <= j].rc[1]

PolledEachOnce == [k \in 1..Len(procs) |-> <<"poll", k>>]
JoinedEachOnce == [k \in 1..Len(procs) |-> <<"wait", k>>]

\* C1: a poll() begun when every child had finished returns 0 if every child
\* exited 0 and else the status of the first child, in member order, that
\* exited non-zero.
C1_FirstFailureWins ==
    (ret.op = "poll" /\ atCall.allFinished)
        => ret.value = Some(ExpectedStatus)

\* children [0, 1, 2]: the first failure is neither the last nor the largest
C1_Witness ==
    /\ ret.op = "poll"
    /\ atCall.allFinished
    /\ Len(procs) = 3
    /\ procs[1].rc = Some(0) /\ procs[2].rc = Some(1) /\ procs[3].rc = Some(2)
    /\ ret.value = Some(1)

\* C2: a poll() begun with nothing cached, one of whose child polls reported
\* still running, has polled every child exactly once, returns None and
\* leaves returncode absent.
C2_RunningPollCachesNothing ==
    (ret.op = "poll" /\ atCall.returncode = None /\ AnyRunning(rcs))
        => /\ log = PolledEachOnce
           /\ ret.value = None
           /\ returncode = None

\* the first child already failed, the second still runs, a third follows
C2_Witness ==
    /\ ret.op = "poll"
    /\ atCall.returncode = None
    /\ Len(procs) = 3
    /\ rcs[1] = Some(1)
    /\ rcs[2] = None
    /\ log = PolledEachOnce

C3_CachedPoll ==
    (ret.op = "poll" /\ atCall.returncode # None)
        => /\ ret.value = atCall.returncode
           /\ log = <<>>

\* C3: a poll() begun with returncode resolved (0 included) returns it and
\* calls no child; and no step of poll, wait or communicate changes a
\* resolved returncode.
C3_ResolvedOnce ==
    /\ []C3_CachedPoll
    /\ [][returncode # None => returncode' = returncode]_vars

\* a poll() answered from a cached 0
C3_Witness ==
    /\ ret.op = "poll"
    /\ atCall.returncode = Some(0)
    /\ Len(procs) >= 2
    /\ ret.value = Some(0)

\* C4: communicate() without input on N >= 1 children returns (stdouts,
\* stderrs), element i of each being what child i wrote, and returncode is
\* resolved when it returns.
C4_CommunicateAligned ==
    (ret.op = "communicate" /\ ret.exc = "none" /\ Len(procs) >= 1)
        => /\ Len(ret.output) = 2
           /\ ret.output[1] = [k \in 1..Len(procs) |-> ProcStdout(procs[k])]
           /\ ret.output[2] = [k \in 1..Len(procs) |-> ProcStderr(procs[k])]
           /\ returncode # None

\* three children, a later member having finished before an earlier one
C4_Witness ==
    /\ ret.op = "communicate"
    /\ ret.exc = "none"
    /\ atCall.input = None
    /\ Len(procs) = 3
    /\ outOfOrder
    /\ Len(ret.output) = 2

C5_WaitJoinsAll ==
    (ret.op = "wait")
        => /\ Len(log) >= Len(procs)
           /\ SubSeq(log, 1, Len(procs)) = JoinedEachOnce
           /\ AllFinished
           /\ ret.value = Some(ExpectedStatus)

InWait == call = "wait" /\ pc # "idle"
WaitReturned == pc = "idle" /\ ret.op = "wait"

\* C5: wait() has joined every child once, in member order, when it returns,
\* every child has finished by then and the value returned is the
\* first-failure status; and if the children all finish, a wait() in progress
\* returns.
C5_WaitCompletes ==
    /\ []C5_WaitJoinsAll
    /\ (<>AllFinished) => (InWait ~> WaitReturned)

\* wait() went on joining after the first child had exited non-zero
C5_Witness ==
    /\ ret.op = "wait"
    /\ Len(procs) = 3
    /\ procs[1].rc = Some(1)
    /\ procs[3].rc = Some(2)
    /\ SubSeq(log, 1, 3) = JoinedEachOnce
    /\ ret.value = Some(1)

\* C10: communicate(input) raises ValueError exactly when input is neither
\* absent nor empty, and has then called no child and left returncode as it
\* was.
C10_InputRejected ==
    (ret.op = "communicate")
        => /\ (ret.exc = "ValueError")
                <=> (atCall.input # None /\ atCall.input # Some(""))
           /\ (ret.exc = "ValueError")
                => /\ log = <<>>
                   /\ out_err_tuples = <<>>
                   /\ returncode = atCall.returncode

\* non-empty input rejected while children run and nothing is cached
C10_Witness ==
    /\ ret.op = "communicate"
    /\ ret.exc = "ValueError"
    /\ atCall.input = Some("data")
    /\ Len(procs) >= 2
    /\ ~AllFinished
    /\ returncode = None

\* C18: in every state reached by interleaving children finishing with calls
\* of poll(), wait() and communicate(), a cached returncode means that every
\* child has finished and is the first non-zero exit status in member order,
\* 0 if there is none.
C18_CachedMeansAllFinished ==
    returncode # None
        => /\ AllFinished
           /\ returncode = Some(ExpectedStatus)

\* three children that did not finish in member order, the second the first
\* to fail, and a call in progress after the status was cached
C18_Witness ==
    /\ returncode = Some(2)
    /\ Len(procs) = 3
    /\ outOfOrder
    /\ procs[1].rc = Some(0) /\ procs[2].rc = Some(2) /\ procs[3].rc = Some(1)
    /\ pc # "idle"

(* ----------------------- claims: make_concurrent ---------------------- *)
\* the plain commands of an expression, left to right
RECURSIVE Leaves(_)
Leaves(t) == IF Len(t) = 1 THEN t ELSE Leaves(t[1]) \o Leaves(t[2])

MemberNames(o) == [k \in 1..Len(heap[o]) |-> heap[o][k].name]

\* C6: the aggregate an '&' expression evaluates to holds the plain commands
\* of the expression in their left-to-right order, however the expression is
\* bracketed, and none of its members is an aggregate.
C6_Flattening ==
    /\ \A o \in 1..Len(heap) :
           /\ \A k \in 1..Len(heap[o]) : heap[o][k].kind = "cmd"
           /\ MemberNames(o) = Leaves(tree[o])
    /\ result.kind = "agg" => result.id \in 1..Len(heap)

\* (a & b) & c and a & (b & c) both evaluated, both [a, b, c]
C6_Witness ==
    \E o1, o2 \in 1..Len(heap) :
        /\ tree[o1] = << << <<"a">>, <<"b">> >>, <<"c">> >>
        /\ tree[o2] = << <<"a">>, << <<"b">>, <<"c">> >> >>
        /\ heap[o1] = <<Plain("a"), Plain("b"), Plain("c")>>
        /\ heap[o2] = <<Plain("a"), Plain("b"), Plain("c")>>

\* the step is self & rhs; the expression of what it returned tells most
\* operands apart before the operator is worked out
IsCombine(self, rhs) ==
    /\ result'.kind = "agg"
    /\ result'.id \in 1..Len(tree')
    /\ tree'[result'.id] = <<TreeOf(self), TreeOf(rhs)>>
    /\ Combine(self, rhs)

\* C19: x & c for an aggregate x builds no aggregate: it returns x with c,
\* or the members of c, added to x's own list (c & x for a plain c returns x
\* with c put first); only '&' of two plain commands builds an aggregate.
C19_CombineInPlace ==
    [][\A self \in Operands : \A rhs \in Operands :
          IsCombine(self, rhs) =>
              IF IsConcurrentCommand(self)
              THEN /\ result' = self
                   /\ Len(heap') = Len(heap)
                   /\ heap'[self.id] =
                          heap[self.id]
                          \o (IF IsConcurrentCommand(rhs) THEN heap[rhs.id]
                              ELSE <<rhs>>)
              ELSE IF IsConcurrentCommand(rhs)
              THEN /\ result' = rhs
                   /\ Len(heap') = Len(heap)
                   /\ heap'[rhs.id] = <<self>> \o heap[rhs.id]
              ELSE /\ result' = Agg(Len(heap) + 1)
                   /\ heap' = Append(heap, <<self, rhs>>)]_vars

\* x = a & b, then x & c, then x & a: one aggregate of four members
C19_Witness ==
    /\ Len(heap) = 1
    /\ tree[1] = << << << <<"a">>, <<"b">> >>, <<"c">> >>, <<"a">> >>
    /\ heap[1] = <<Plain("a"), Plain("b"), Plain("c"), Plain("a")>>
    /\ result = Agg(1)

(* ---------------------- claims: ConcurrentCommand --------------------- *)
\* C14: x[args] for an aggregate x of N members and a non-empty argument
\* list returns a new aggregate of N members, member i being member i of x
\* bound with args, and leaves every aggregate there was as it was; x[()]
\* returns x and changes nothing.
C14_BindBuildsNew ==
    [][\A o \in 1..Len(heap) : \A a \in Subscripts :
          Bind(Agg(o), a) =>
              IF AsArgs(a) = << >>
              THEN /\ result' = Agg(o)
                   /\ heap' = heap
              ELSE /\ result' = Agg(Len(heap) + 1)
                   /\ Len(heap') = Len(heap) + 1
                   /\ Len(heap'[Len(heap) + 1]) = Len(heap[o])
                   /\ \A i \in 1..Len(heap[o]) :
                          heap'[Len(heap) + 1][i] =
                              [kind |-> "cmd", name |-> heap[o][i].name,
                               id |-> 0,
                               args |-> heap[o][i].args \o AsArgs(a)]
                   /\ \A x \in 1..Len(heap) : heap'[x] = heap[x]]_vars

\* (a & b)["-l"]: a second aggregate, the first one as it was
C14_Witness ==
    /\ Len(heap) = 2
    /\ heap[1] = <<Plain("a"), Plain("b")>>
    /\ heap[2] = <<BindMember(Plain("a"), <<"-l">>),
                   BindMember(Plain("b"), <<"-l">>)>>
    /\ result = Agg(2)

\* the members of cmds whose spawn raises
BrokenMembers(cmds, broken) == {k \in 1..Len(cmds) : cmds[k].name \in broken}
\* how many members are spawned: all, or those before the first that raises
SpawnedCount(cmds, broken) ==
    IF BrokenMembers(cmds, broken) = {} THEN Len(cmds)
    ELSE (CHOOSE k \in BrokenMembers(cmds, broken) :
              \A j \in BrokenMembers(cmds, broken) : k <= j) - 1
\* the child of member i bound with args, no method called on it
ChildOf(cmds, i, args) ==
    [of |-> i,
     cmd |-> [cmds[i] EXCEPT !.args = @ \o args],
     calls |-> << >>]

\* C15: popen on an aggregate spawns the members in member order; when no
\* spawn raises it returns a handle whose child i was spawned from member i;
\* when the spawn of a member raises, the error reaches the caller, no handle
\* is returned, no later member is spawned and the children spawned before
\* have had no method called on them.
C15_SpawnInOrder ==
    [][\A o \in 1..Len(heap) : \A args \in PopenArgs :
          \A broken \in Breakages :
              Popen(Agg(o), args, broken) =>
                  LET n == SpawnedCount(heap[o], broken)
                      children == [i \in 1..n |-> ChildOf(heap[o], i, args)]
                  IN  /\ spawned' = children
                      /\ IF n = Len(heap[o])
                         THEN /\ handle' = Some(children)
                              /\ result' = PopenHandle
                         ELSE /\ handle' = None
                              /\ result' = RaisedError("SpawnError")]_vars

\* [a, b, c] with the spawn of c raising: a and b were spawned and left alone
C15_Witness ==
    /\ heap = << <<Plain("a"), Plain("b"), Plain("c")>> >>
    /\ result = RaisedError("SpawnError")
    /\ handle = None
    /\ Len(spawned) = 2
    /\ spawned[1].cmd = BindMember(Plain("a"), <<"-l">>)
    /\ spawned[2].cmd = BindMember(Plain("b"), <<"-l">>)
    /\ \A i \in 1..2 : spawned[i].of = i /\ spawned[i].calls = << >>

\* C16: every aggregate has at least one member: the constructor given no
\* command raises and builds nothing, and no construction, '&' or binding
\* makes the member list of an aggregate shorter.
C16_NeverEmpty ==
    /\ [](\A o \in 1..Len(heap) : Len(heap[o]) >= 1)
    /\ [][/\ Construct(<< >>) =>
                (result'.kind = "NameError" /\ heap' = heap)
           /\ \A o \in 1..Len(heap) : Len(heap'[o]) >= Len(heap[o])]_vars

\* the constructor was given no command next to an aggregate of one member
\* and the aggregate bound from it
C16_Witness ==
    /\ result = RaisedError("NameError")
    /\ Len(heap) = 2
    /\ heap[1] = <<Plain("a")>>
    /\ heap[2] = <<BindMember(Plain("a"), <<"-l">>)>>

(* --------------------------- claims: Cluster -------------------------- *)
\* what machine i of the group answers to op(arg)
AnswerOf(op, i, arg) == <<op, machines[i], arg>>

\* the last operation was group[name], group.session() or group.python
NeedsMachines ==
    \/ (cret.op = "getitem" /\ cret.key.kind = "str")
    \/ cret.op \in {"session", "python"}

\* C8: on a Cluster without machines, indexing by a name, session() and
\* python raise EmptyCluster and call no machine, while which, list_processes,
\* pgrep and path raise nothing and return []; a broadcast query that returns
\* on N machines returns N results, result i being machine i's.
C8_EmptyGuard ==
    /\ (NeedsMachines /\ machines = <<>>)
            => cret.exc = "EmptyCluster" /\ contacts = <<>>
    /\ (cret.op \in BroadcastOps /\ machines = <<>>)
            => cret.exc = "none" /\ cret.kind = "list" /\ cret.items = <<>>
    /\ (cret.op \in BroadcastOps /\ cret.exc = "none")
            => /\ cret.kind = "list"
               /\ cret.items = [i \in 1..Len(machines)
                                    |-> AnswerOf(cret.op, i, cret.arg)]
               /\ contacts = machines

\* group["ls"] on the empty Cluster
C8_Witness ==
    /\ machines = <<>>
    /\ cret.op = "getitem"
    /\ cret.key = StrKey("ls")
    /\ cret.exc = "EmptyCluster"

\* the members on which indexing by name n fails: unreachable, or
\* without the program
Failing(n) ==
    {i \in 1..Len(machines) :
        ~up[machines[i]] \/ n \notin installed[machines[i]]}
FirstFailing(n) == CHOOSE i \in Failing(n) : \A j \in Failing(n) : i <= j

\* C9: name in group is True when indexing by the name succeeds on every
\* machine, False when the indexing fails with CommandNotFound (the first
\* failing machine lacks the program), and raises the indexing's error
\* otherwise: EmptyCluster without machines, the transport's error when
\* the first failing machine cannot be reached.
C9_Membership ==
    (cret.op = "contains" /\ cret.key.kind = "str")
        => LET n == cret.key.name
           IN  IF machines = <<>>
               THEN cret.exc = "EmptyCluster"
               ELSE IF Failing(n) = {}
               THEN cret.exc = "none" /\ cret.kind = "bool" /\ cret.flag
               ELSE IF up[machines[FirstFailing(n)]]
               THEN cret.exc = "none" /\ cret.kind = "bool" /\ ~cret.flag
               ELSE cret.exc = "TransportError"

\* the first machine has the program, the second cannot be reached
C9_Witness ==
    /\ cret.op = "contains"
    /\ cret.key = StrKey("ls")
    /\ Len(machines) >= 2
    /\ Failing("ls") # {}
    /\ FirstFailing("ls") = 2
    /\ ~up[machines[2]]
    /\ cret.exc = "TransportError"

\* every machine of the group can be reached, so that no close raises
AllUp == \A k \in 1..Len(machines) : up[machines[k]]
\* the first machine of the group whose close raises
FirstDown ==
    CHOOSE i \in 1..Len(machines) :
        /\ ~up[machines[i]]
        /\ \A j \in 1..(i - 1) : up[machines[j]]

\* the step is a close() or the leaving of the with-scope
IsClosing == cret'.op \in {"close", "exit"}

\* C12: when no machine's close raises, close() and leaving the with-scope,
\* normally or by an error of the body, call close once on every machine in
\* order and leave the group without machines; on a group without machines
\* they close nothing, and close() raises nothing.
C12_CloseClosesAll ==
    [][\A bodyRaised \in BOOLEAN :
          (IsClosing /\ (CallClose \/ CallExit(bodyRaised)) /\ AllUp)
              => /\ contacts' = machines
                 /\ machines' = << >>
                 /\ cret'.op = "close" => cret'.exc = "none"
                 /\ cret'.op = "exit" =>
                        cret'.exc \in {"none", "BodyError"}]_vars

\* the with-scope of three machines was left by an error of the body
C12_Witness ==
    /\ cret.op = "exit"
    /\ cret.exc = "BodyError"
    /\ contacts = <<"h1", "h2", "h1">>
    /\ machines = << >>

\* C20: when the close of machine i raises during close(), the error reaches
\* the caller, the machines after i are not closed and the machine list is
\* as it was. (The group is then as before the call, so a close() repeated
\* is such a step again: it calls close on machines 1..i once more.)
C20_CloseStopsAtError ==
    [][(IsClosing /\ CallClose /\ ~AllUp)
          => /\ cret'.exc = "TransportError"
             /\ contacts' = SubSeq(machines, 1, FirstDown)
             /\ machines' = machines
             /\ UNCHANGED up]_vars

\* the close of the second of three machines raised: the first was closed,
\* the third was not, the list is whole
C20_Witness ==
    /\ cret.op = "close"
    /\ cret.exc = "TransportError"
    /\ machines = <<"h1", "h2", "h1">>
    /\ up["h1"] /\ ~up["h2"]
    /\ contacts = <<"h1", "h2">>

(* ----------------------- claims: Cluster.as_user ---------------------- *)
Reverse(q) == [k \in 1..Len(q) |-> q[Len(q) + 1 - k]]
Left == asPc = "idle" /\ outcome \in {"returned", "raised", "RuntimeError"}
Propagated == outcome \in {"raised", "RuntimeError"}
ExitRaisedAt(j) == ctxs[exitLog[j]].exit = "raise"

\* C7 as stated: once the as_user scope is left, every context entered had
\* its exit called exactly once, and an error reached the caller if any
\* exit raised.
C7_Original ==
    Left => /\ exitLog = Reverse(entered)
            /\ (\E j \in 1..Len(exitLog) : ExitRaisedAt(j)) => Propagated

\* C7 as amended: once the as_user scope is left, every context entered had
\* its exit called exactly once, last entered first; and an error reached
\* the caller if an exit raised and no exit called after it returned a true
\* value.
C7_ExitsAllAttempted ==
    Left => /\ exitLog = Reverse(entered)
            /\ (\E j \in 1..Len(exitLog) :
                    /\ ExitRaisedAt(j)
                    /\ \A l \in (j + 1)..Len(exitLog) :
                           ctxs[exitLog[l]].exit # "suppress")
                   => Propagated

\* three machines, the body returned, the exit of the third raised and the
\* exits of the second and the first were still called
C7_Witness ==
    /\ Left
    /\ Len(machines) = 3
    /\ entered = <<1, 2, 3>>
    /\ exc = Some(<<"exit", 1>>)
    /\ ctxs[3].exit = "raise" /\ ctxs[2].exit = "ok" /\ ctxs[1].exit = "raise"
    /\ exitLog = <<3, 2, 1>>
    /\ outcome = "raised"

\* C13: as_user(user) or as_root() on a machine group with zero machines
\* raises EmptyCluster and never runs the scope body.
C13_EmptyGroupRejected ==
    (Left /\ machines = << >>)
        => /\ outcome = "EmptyCluster"
           /\ ~yielded

\* zero machines: no context was entered, the body ran and the scope was
\* left without an error
C13_BodyRan ==
    /\ Left
    /\ machines = << >>
    /\ entered = << >>
    /\ yielded
    /\ outcome = "returned"

(* ----------------------- claims: ClusterSession ----------------------- *)
NoShellCloseRaises == \A k \in 1..Len(shells) : ~ShellCloseRaises(shells[k])

\* C11: on a ClusterSession made by Cluster.session(), when no session's
\* close raises, the first close() closes each session once, raises nothing
\* and leaves the sequence empty, and every later close (close(), leaving
\* the scope, destruction) closes no session and raises nothing: no session
\* is closed twice.
C11_CloseIdempotent ==
    NoShellCloseRaises
        => /\ \A k \in 1..Len(shells) : shells[k].closes <= 1
           /\ sret.op \in {"close", "exit", "del"}
                  => /\ \A k \in 1..Len(shells) : shells[k].closes = 1
                     /\ sret.exc = "none"
                     /\ sessions.items = << >>

\* two sessions whose close does not raise, close() called twice: TypeError,
\* both sessions still held, each closed twice
C11_ClosedTwice ==
    /\ NoShellCloseRaises
    /\ sret.op = "close"
    /\ sret.exc = "TypeError"
    /\ sessions = PyTuple(<<1, 2>>)
    /\ \A k \in 1..2 : shells[k].closes = 2

\* C17: alive() on a ClusterSession of which at least one underlying session
\* is dead returns false.
C17_AliveMeansAllAlive ==
    (sret.op = "alive" /\ sret.someDead) => sret.value = FALSE

\* alive() gave true although a shell had ended
C17_DeadButAlive ==
    /\ sret.op = "alive"
    /\ sret.someDead
    /\ sret.value = TRUE
    /\ \E k \in 1..Len(shells) : ~shells[k].alive

====
